---- MODULE Spec2Model ----
(***************************************************************************)
(* Role/permission evaluation and caching engine of the lab system:        *)
(* PermissionService (lib/rbac/permissions.ts), the role catalog           *)
(* (types/roles) and the zustand permission store with its decision cache  *)
(* (store/permissionStore.ts).                                             *)
(*                                                                         *)
(* Strings that the code builds with template literals are sequences of    *)
(* tokens, so that `${a}:${b}` is a concatenation and not an opaque pair.  *)
(* The empty sequence is the falsy id (null, undefined or "").             *)
(***************************************************************************)
EXTENDS Integers, Sequences, FiniteSets, TLC

\* ------------------------------------------------------------------ bounds
\* Number of 5-minute steps the clock may take.
MaxTicks == 3
\* Number of checkPermission / hasPermission calls started in one behaviour.
MaxCalls == 3
\* Number of store lookups that may fail (error value or exception).
MaxFaults == 1

\* Granularity of the clock, in milliseconds.
TickMs == 5 * 60 * 1000

\* --------------------------------------------------------------- constants
CACHE_TTL == 5 * 60 * 1000
PERMISSION_CACHE_TTL == 10 * 60 * 1000
\* setTimeout delay of the direct-permission cache
USER_PERMISSION_CACHE_MS == 5 * 60 * 1000
\* expires_at of a grant that never expires (expires_at IS NULL)
NoExpiry == 0 - 1

\* ------------------------------------------------------------ role catalog
UserRole == {"admin", "dosen", "laboran", "mahasiswa"}

P(resource, action) == <<resource, ":", action>>

ROLE_HIERARCHY ==
  [role \in UserRole |->
    CASE role = "admin" ->
           [level |-> 4, default_permissions |-> {<<"*">>}]
      [] role = "dosen" ->
           [level |-> 3, default_permissions |->
             {P("courses", "read"), P("courses", "update"), P("courses", "create"),
              P("schedules", "create"), P("schedules", "read"), P("schedules", "update"),
              P("students", "read"), P("grades", "create"), P("grades", "read"),
              P("grades", "update"), P("reports", "read"), P("reports", "approve"),
              P("materials", "create"), P("materials", "read"), P("materials", "update")}]
      [] role = "laboran" ->
           [level |-> 2, default_permissions |->
             {P("inventory", "create"), P("inventory", "read"), P("inventory", "update"),
              P("inventory", "delete"), P("loans", "read"), P("loans", "approve"),
              P("loans", "update"), P("labs", "read"), P("labs", "update")}]
      [] role = "mahasiswa" ->
           [level |-> 1, default_permissions |->
             {P("courses", "read"), P("schedules", "read"), P("grades", "read"),
              P("reports", "create"), P("reports", "read"), P("attendance", "read"),
              P("materials", "read")}]]

getRolePermissionsDosenForAll(role) ==
  ROLE_HIERARCHY["dosen"].default_permissions

getRolePermissions(role) ==
  IF <<"*">> \in ROLE_HIERARCHY[role].default_permissions
  THEN {<<"*">>}
  ELSE ROLE_HIERARCHY[role].default_permissions

canRoleAccessStrict(userRole, requiredRole) ==
  ROLE_HIERARCHY[userRole].level > ROLE_HIERARCHY[requiredRole].level

canRoleAccess(userRole, requiredRole) ==
  ROLE_HIERARCHY[userRole].level >= ROLE_HIERARCHY[requiredRole].level

\* ------------------------------------------------------------- data stores
\* users table: id -> row.  <<"zz">> is an id with no row.
UsersTable ==
  [id \in {<<"a1">>, <<"d1">>, <<"d2">>, <<"l1">>, <<"m1">>, <<"m2">>} |->
    [id |-> id,
     role |-> CASE id = <<"a1">> -> "admin"
                [] id \in {<<"d1">>, <<"d2">>} -> "dosen"
                [] id = <<"l1">> -> "laboran"
                [] OTHER -> "mahasiswa"]]

\* user_permissions rows joined with permissions(resource, action)
GrantUniverse ==
  {[user_id |-> <<"m1">>, resource |-> <<"reports">>, action |-> <<"export">>,
    expires_at |-> TickMs],
   [user_id |-> <<"d2">>, resource |-> <<"reports">>, action |-> <<"export">>,
    expires_at |-> NoExpiry]}

\* rows of the tables checkOwnership reads: id r1 belongs to m1, id r2 to d1
ResourceRows(table) ==
  LET field == IF table = "peminjaman_alat" THEN "peminjam_id" ELSE "mahasiswa_id"
  IN  IF table \in {"laporan_mahasiswa", "peminjaman_alat", "penilaian", "presensi"}
      THEN {[f \in {"id", field} |-> IF f = "id" THEN <<"r1">> ELSE <<"m1">>],
            [f \in {"id", field} |-> IF f = "id" THEN <<"r2">> ELSE <<"d1">>]}
      ELSE {}

\* principals with at least one presensi row
PresensiUsers == {<<"m1">>}

\* what a store lookup can do: answer, answer with an error value, or throw
Outcomes == {"ok", "error", "throw"}

\* ------------------------------------------------------ contexts and results
NoContext == [resource_id |-> <<>>, course_id |-> <<>>]

Ctx(rid, cid) == [resource_id |-> rid, course_id |-> cid]

Quoted(s) == <<"\"">> \o s \o <<"\"">>

\* JSON.stringify(context || {})
JSONstringify(context) ==
  LET rid == IF context.resource_id = <<>> THEN <<>>
             ELSE <<"\"resource_id\"", ":">> \o Quoted(context.resource_id)
      cid == IF context.course_id = <<>> THEN <<>>
             ELSE <<"\"additional_context\"", ":", "{", "\"course_id\"", ":">>
                  \o Quoted(context.course_id) \o <<"}">>
      sep == IF rid # <<>> /\ cid # <<>> THEN <<",">> ELSE <<>>
  IN  <<"{">> \o rid \o sep \o cid \o <<"}">>

Result(allowed, reason, required, context) ==
  [allowed |-> allowed, reason |-> reason,
   required_permissions |-> required, context |-> context]

Deny(reason) == Result(FALSE, <<reason>>, <<>>, NoContext)

Allow(reason) == Result(TRUE, <<reason>>, <<>>, NoContext)

NoResult == Result(FALSE, <<>>, <<>>, NoContext)

\* `${resource}:${action}`
requiredPermission(resource, action) == resource \o <<":">> \o action

MissingPermission(required) ==
  Result(FALSE, <<"Missing permission: ">> \o required, <<required>>, NoContext)

\* ------------------------------------------------------------- vocabulary
\* principals that can be the active user of the auth store
AuthUsers == {<<"m1">>, <<"d1">>}

\* (resource, action, context) requests made through the permission store
StoreRequests ==
  {[resource |-> <<"reports">>, action |-> <<"export">>, context |-> NoContext],
   [resource |-> <<"reports">>, action |-> <<"read">>, context |-> Ctx(<<"r1">>, <<>>)]}

\* inputs of direct PermissionService.hasPermission calls (the usePermissions hook)
EvalUsers == (DOMAIN UsersTable \ {<<"d2">>}) \cup {<<"zz">>}

EvalResources ==
  {<<"reports">>, <<"grades">>, <<"loans">>, <<"attendance">>, <<"inventory">>,
   <<"courses">>, <<"users">>}

EvalActions == {<<"read">>, <<"create">>, <<"export">>}

EvalContexts ==
  {NoContext, Ctx(<<"r1">>, <<>>), Ctx(<<"r2">>, <<>>), Ctx(<<"r9">>, <<>>),
   Ctx(<<>>, <<"c1">>), Ctx(<<"r1">>, <<"c1">>)}

\* concurrently running calls
CallIds == {"c1", "c2"}

\* ------------------------------------------------------------------- state
VARIABLES
  now,                   \* Date.now()
  authUser,              \* useAuthStore.getState().user?.id, <<>> when logged out
  previousUserId,        \* closure variable of the auth-store subscriber
  grants,                \* rows of user_permissions
  userPermissionCache,   \* PermissionService.userPermissionCache
  timers,                \* pending setTimeout callbacks of getUserDirectPermissions
  permissionCache,       \* usePermissionStore.permissionCache
  cacheHits,
  cacheMisses,
  isCheckingPermissions,
  error,
  userPermissions,
  rolePermissions,
  effectivePermissions,
  calls,                 \* the running calls
  lastReturn,            \* history: the call that returned last, with its result
  nCalls,                \* calls started so far
  faults,                \* failed lookups so far
  lastServed,            \* history: per request, what the evaluated calls returned
  invalidated,           \* history: last clearUserCache not yet followed by a check
  batch,                 \* the running hasAnyPermission / hasAllPermissions call
  guard,                 \* the last rendering of a RoleGuard
  cleared,               \* history: the last clearCache / clearUserCache call
  secure,                \* the last rendering of a SecureComponent
  pguard                 \* a mounted PermissionGuard: props, hook state, output

vars ==
  <<now, authUser, previousUserId, grants, userPermissionCache, timers,
    permissionCache, cacheHits, cacheMisses, isCheckingPermissions, error,
    userPermissions, rolePermissions, effectivePermissions, calls, lastReturn,
    nCalls, faults, lastServed, invalidated, batch, guard, cleared, secure,
    pguard>>

\* what the components render
renderVars == <<guard, secure, pguard>>

\* what the permission store and the single evaluations leave alone
extraVars == <<batch, renderVars, cleared>>

\* the permission service, the permission store and their history
coreVars ==
  <<now, authUser, previousUserId, grants, userPermissionCache, timers,
    permissionCache, cacheHits, cacheMisses, isCheckingPermissions, error,
    userPermissions, rolePermissions, effectivePermissions, calls, lastReturn,
    nCalls, faults, lastServed, invalidated>>

serviceVars == <<userPermissionCache, timers>>

storeStats == <<cacheHits, cacheMisses>>

loadedVars == <<userPermissions, rolePermissions, effectivePermissions>>

histVars == <<lastReturn, lastServed, invalidated>>

NotInvalidated == [userId |-> <<>>, valid |-> {}]

IdleCall ==
  [pc |-> "idle", via |-> "none", userId |-> <<>>,
   resource |-> <<>>, action |-> <<>>, context |-> NoContext, cacheKey |-> <<>>,
   role |-> "none", consulted |-> FALSE, resolved |-> {}, qtime |-> 0,
   result |-> NoResult, hit |-> FALSE, sawExpired |-> FALSE,
   activeAtStart |-> <<>>, computedFor |-> <<>>, resourceOutcome |-> "none",
   afterInvalidate |-> FALSE, validAtInvalidate |-> {},
   index |-> 0, failedLookups |-> {}, lookups |-> <<>>]

\* no batch call is running
IdleBatch ==
  [pc |-> "idle", kind |-> "none", userId |-> <<>>, permissions |-> <<>>,
   context |-> NoContext, started |-> 0, results |-> <<>>, collected |-> {},
   evaluated |-> <<>>, result |-> NoResult]

\* no RoleGuard has been rendered
NoGuard ==
  [user |-> "none", requiredRole |-> "none", exact |-> FALSE, fallback |-> FALSE,
   loading |-> FALSE, rendered |-> "none"]

\* no SecureComponent has been rendered
NoSecure ==
  [mode |-> "none", hideOnNoAccess |-> FALSE, fallback |-> FALSE, user |-> "none",
   requiredRole |-> "none", exact |-> FALSE, roles |-> {}, allowed |-> "null",
   loading |-> FALSE, rendered |-> "none"]

\* no PermissionGuard is mounted
NoPermissionGuard ==
  [mounted |-> FALSE, resource |-> <<>>, action |-> <<>>, context |-> NoContext,
   showLoading |-> FALSE, fallback |-> FALSE, allowed |-> "null", loading |-> FALSE,
   result |-> NoResult, effectPending |-> FALSE, rendered |-> "none"]

\* no clearCache or clearUserCache has been called
NoCleared == [by |-> "none", userId |-> <<>>, before |-> <<>>, pending |-> FALSE]

\* ------------------------------------------- PermissionService.hasPermission
Required(call) == requiredPermission(call.resource, call.action)

Done(call, result) ==
  [call EXCEPT !.pc = "done", !.result = result, !.computedFor = call.userId]

IsAdminNever(role) == FALSE

\* userData.role === 'admin'
IsAdmin(role) == role = "admin"

\* rolePermissions.includes(requiredPermission) || rolePermissions.includes('*')
RoleAllows(rolePerms, required) ==
  required \in rolePerms \/ <<"*">> \in rolePerms

GrantAllowsAlways(userPerms, required) == TRUE

\* userPermissions.includes(requiredPermission)
GrantAllows(userPerms, required) == required \in userPerms

ownershipFields ==
  [r \in {<<"reports">>, <<"loans">>, <<"grades">>, <<"attendance">>} |->
    IF r = <<"loans">> THEN "peminjam_id" ELSE "mahasiswa_id"]

tableMap ==
  [r \in {<<"reports">>, <<"loans">>, <<"grades">>, <<"attendance">>} |->
    CASE r = <<"reports">> -> "laporan_mahasiswa"
      [] r = <<"loans">> -> "peminjaman_alat"
      [] r = <<"grades">> -> "penilaian"
      [] OTHER -> "presensi"]

checkLabAccess(userId, context) == Allow("Laboran lab access")

checkOwnershipResultOwnerAlways(userId, resource, resourceId, outcome) ==
  Allow("Resource owner")

\* checkOwnership once dbService.getById has answered (or thrown)
checkOwnershipResult(userId, resource, resourceId, outcome) ==
  LET ownerField == ownershipFields[resource]
      rows == {r \in ResourceRows(tableMap[resource]) : r["id"] = resourceId}
  IN  IF outcome = "throw" THEN Deny("Ownership check failed")
      ELSE IF outcome = "error" \/ rows = {} THEN Deny("Resource not found")
      ELSE LET resourceData == CHOOSE r \in rows : TRUE
               owner == IF ownerField \in DOMAIN resourceData
                        THEN resourceData[ownerField] ELSE <<>>
               isOwner == owner = userId
           IN  Result(isOwner,
                      IF isOwner THEN <<"Resource owner">> ELSE <<"Not resource owner">>,
                      <<>>, NoContext)

checkCourseEnrollmentResultAllowOnError(userId, context, outcome) ==
  IF outcome # "ok" THEN Allow("Student enrolled")
  ELSE Result(userId \in PresensiUsers, <<"Student enrolled">>, <<>>, NoContext)

checkCourseEnrollmentResultAlwaysEnrolled(userId, context, outcome) ==
  IF outcome # "ok" THEN Deny("Enrollment check failed")
  ELSE Allow("Student enrolled")

checkCourseEnrollmentResultByCourse(userId, context, outcome) ==
  IF outcome # "ok" THEN Deny("Enrollment check failed")
  ELSE LET enrolled == userId \in PresensiUsers /\ context.course_id = <<"c1">>
       IN  Result(enrolled,
                  IF enrolled THEN <<"Student enrolled">> ELSE <<"Student not enrolled">>,
                  <<>>, NoContext)

\* checkCourseEnrollment once the presensi query has answered (or thrown); the
\* query selects by mahasiswa_id only
checkCourseEnrollmentResult(userId, context, outcome) ==
  IF outcome # "ok" THEN Deny("Enrollment check failed")
  ELSE LET enrolled == userId \in PresensiUsers
       IN  Result(enrolled,
                  IF enrolled THEN <<"Student enrolled">> ELSE <<"Student not enrolled">>,
                  <<>>, NoContext)

\* return { allowed: true, context }
ContextAllowed(call) == Done(call, Result(TRUE, <<>>, <<>>, call.context))

\* checkPermissionContext after the ownership check passed: lab access, then
\* course enrollment up to its query
AfterOwnership(call) ==
  LET labCheck == checkLabAccess(call.userId, call.context)
  IN  IF /\ call.role = "laboran"
         /\ call.resource \in {<<"inventory">>, <<"loans">>}
         /\ ~labCheck.allowed
      THEN Done(call, labCheck)
      ELSE IF /\ call.role = "mahasiswa"
              /\ call.resource \in {<<"courses">>, <<"grades">>}
              /\ call.context.course_id # <<>>
           THEN [call EXCEPT !.pc = "enroll"]
           ELSE ContextAllowed(call)

\* checkPermissionContext up to its first lookup
checkPermissionContext(call) ==
  IF call.context.resource_id # <<>> /\ call.resource \in DOMAIN ownershipFields
  THEN [call EXCEPT !.pc = "resource"]
  ELSE AfterOwnership(call)

\* hasPermission once the direct permissions are known
AfterGrants(call, userPerms) ==
  LET c2 == [call EXCEPT !.consulted = TRUE, !.resolved = userPerms]
  IN  IF GrantAllows(userPerms, Required(call))
      THEN checkPermissionContext(c2)
      ELSE Done(c2, MissingPermission(Required(call)))

AfterUserQueryFirst(call, outcome, upc, t) ==
  IF outcome = "throw" THEN Done(call, Deny("Permission check failed"))
  ELSE IF outcome = "error" \/ call.userId \notin DOMAIN UsersTable
       THEN Done(call, Deny("User not found"))
  ELSE LET c2 == [call EXCEPT !.role = UsersTable[call.userId].role]
       IN  IF IsAdmin(c2.role) THEN Done(c2, Allow("Admin access"))
           ELSE [c2 EXCEPT !.pc = "grants", !.qtime = t]

\* hasPermission once dbService.getById('users', userId) has answered (or thrown);
\* upc is PermissionService.userPermissionCache, t the current time
AfterUser(call, outcome, upc, t) ==
  IF outcome = "throw" THEN Done(call, Deny("Permission check failed"))
  ELSE IF outcome = "error" \/ call.userId \notin DOMAIN UsersTable
       THEN Done(call, Deny("User not found"))
  ELSE LET c2 == [call EXCEPT !.role = UsersTable[call.userId].role]
       IN  IF IsAdmin(c2.role) THEN Done(c2, Allow("Admin access"))
           ELSE IF RoleAllows(getRolePermissions(c2.role), Required(call))
                THEN checkPermissionContext(c2)
           ELSE IF call.userId \in DOMAIN upc
                THEN AfterGrants(c2, upc[call.userId])
           ELSE [c2 EXCEPT !.pc = "grants", !.qtime = t]

\* the user_permissions query: rows of the user with expires_at null or > qtime
directPermissionsQuery(userId, qtime, rows) ==
  {requiredPermission(g.resource, g.action) :
     g \in {x \in rows : /\ x.user_id = userId
                         /\ (x.expires_at = NoExpiry \/ x.expires_at > qtime)}}

\* --------------------------------------------------------- permission store
startsWith(key, prefix) ==
  Len(key) >= Len(prefix) /\ SubSeq(key, 1, Len(prefix)) = prefix

cacheKeyWithoutUser(userId, resource, action, context) ==
  resource \o <<":">> \o action \o <<":">> \o JSONstringify(context)

\* `${user.id}:${resource}:${action}:${JSON.stringify(context || {})}`
cacheKey(userId, resource, action, context) ==
  userId \o <<":">> \o resource \o <<":">> \o action \o <<":">> \o JSONstringify(context)

IsExpiredAtTtl(entry, t) == t - entry.timestamp >= entry.ttl

\* Date.now() - entry.timestamp > entry.ttl
IsExpired(entry, t) == t - entry.timestamp > entry.ttl

Without(cache, keys) == [k \in DOMAIN cache \ keys |-> cache[k]]

getCacheEntryCacheDropAll(cache, key, t) ==
  IF key \in DOMAIN cache /\ IsExpired(cache[key], t) THEN Without(cache, DOMAIN cache)
  ELSE cache

\* getCacheEntry: the cache it leaves
getCacheEntryCache(cache, key, t) ==
  IF key \in DOMAIN cache /\ IsExpired(cache[key], t) THEN Without(cache, {key})
  ELSE cache

\* getCacheEntry: what it returns (NoResult is null)
getCacheEntry(cache, key, t) ==
  IF key \notin DOMAIN cache THEN NoResult
  ELSE IF IsExpired(cache[key], t) THEN NoResult
  ELSE cache[key].result

setCacheEntryKeepFirst(cache, key, result, ttl, t, for) ==
  IF key \in DOMAIN cache THEN cache
  ELSE [k \in DOMAIN cache \cup {key} |->
         IF k = key THEN [result |-> result, timestamp |-> t, ttl |-> ttl, for |-> for]
         ELSE cache[k]]

setCacheEntrySkipDenials(cache, key, result, ttl, t, for) ==
  IF ~result.allowed THEN cache
  ELSE [k \in DOMAIN cache \cup {key} |->
         IF k = key THEN [result |-> result, timestamp |-> t, ttl |-> ttl, for |-> for]
         ELSE cache[k]]

setCacheEntryAlone(cache, key, result, ttl, t, for) ==
  [k \in {key} |-> [result |-> result, timestamp |-> t, ttl |-> ttl, for |-> for]]

\* setCacheEntry; for is history: the request the result was computed for
setCacheEntry(cache, key, result, ttl, t, for) ==
  [k \in DOMAIN cache \cup {key} |->
    IF k = key THEN [result |-> result, timestamp |-> t, ttl |-> ttl, for |-> for]
    ELSE cache[k]]

clearUserCacheCacheKeepAll(cache, userId) == cache

clearUserCacheCacheByPrefix(cache, userId) ==
  Without(cache, {k \in DOMAIN cache : startsWith(k, userId)})

\* clearUserCache: keep the keys that do not start with `${userId}:`
clearUserCacheCache(cache, userId) ==
  Without(cache, {k \in DOMAIN cache : startsWith(k, userId \o <<":">>)})

ValidGrants(userId, t, rows) == directPermissionsQuery(userId, t, rows)

\* ------------------------------------------------------------------ actions
Init ==
  /\ now = 0
  /\ authUser = <<>>
  /\ previousUserId = <<>>
  /\ grants = GrantUniverse
  /\ userPermissionCache = <<>>
  /\ timers = {}
  /\ permissionCache = <<>>
  /\ cacheHits = 0
  /\ cacheMisses = 0
  /\ isCheckingPermissions = FALSE
  /\ error = <<>>
  /\ userPermissions = <<>>
  /\ rolePermissions = <<>>
  /\ effectivePermissions = <<>>
  /\ calls = [c \in CallIds |-> IdleCall]
  /\ nCalls = 0
  /\ faults = 0
  /\ lastServed = <<>>
  /\ invalidated = NotInvalidated
  /\ lastReturn = IdleCall
  /\ batch = IdleBatch
  /\ guard = NoGuard
  /\ cleared = NoCleared
  /\ secure = NoSecure
  /\ pguard = NoPermissionGuard

\* history: the (principal id, resource, action, context) of a call
Request(call) ==
  [userId |-> call.userId, resource |-> call.resource, action |-> call.action,
   context |-> call.context]

\* history: the lookups of a call, in the order in which they answered, and
\* those that failed
Noted(call, lookup, outcome) ==
  [call EXCEPT !.lookups = Append(@, lookup),
               !.failedLookups = IF outcome = "ok" THEN @ ELSE @ \cup {lookup}]

\* a lookup answers: ok, or one of the bounded number of failures
Lookup(outcome) ==
  /\ outcome = "ok" \/ faults < MaxFaults
  /\ faults' = IF outcome = "ok" THEN faults ELSE faults + 1

\* a call moves on; when a store call is finished, checkPermission caches the
\* result, clears isCheckingPermissions and returns it
Finish(c, call2) ==
  /\ calls' = [calls EXCEPT ![c] = IF call2.pc = "done" THEN IdleCall ELSE call2]
  /\ lastReturn' = IF call2.pc = "done" THEN call2 ELSE lastReturn
  /\ IF call2.pc = "done" /\ call2.via = "store"
     THEN /\ permissionCache' =
               setCacheEntry(permissionCache, call2.cacheKey, call2.result,
                             PERMISSION_CACHE_TTL, now, Request(call2))
          /\ isCheckingPermissions' = FALSE
          /\ lastServed' =
               [k \in DOMAIN lastServed \cup {Request(call2)} |->
                 IF k = Request(call2)
                 THEN [last |-> [result |-> call2.result, at |-> now],
                       all  |-> (IF k \in DOMAIN lastServed
                                 THEN lastServed[k].all ELSE {})
                                  \cup {[result |-> call2.result, at |-> now]}]
                 ELSE lastServed[k]]
     ELSE UNCHANGED <<permissionCache, isCheckingPermissions, lastServed>>

NewCall(c, via, userId, req) ==
  [IdleCall EXCEPT !.via = via, !.userId = userId,
                   !.resource = req.resource, !.action = req.action,
                   !.context = req.context, !.activeAtStart = authUser]

\* usePermissionStore.checkPermission up to the first lookup of hasPermission
CheckPermission(c, req) ==
  /\ calls[c].pc = "idle"
  /\ nCalls < MaxCalls
  /\ nCalls' = nCalls + 1
  /\ LET key == cacheKey(authUser, req.resource, req.action, req.context)
         call == [NewCall(c, "store", authUser, req) EXCEPT
                    !.cacheKey = key,
                    !.afterInvalidate = authUser # <<>> /\ invalidated.userId = authUser,
                    !.validAtInvalidate = invalidated.valid]
         cached == getCacheEntry(permissionCache, key, now)
     IN  IF authUser = <<>>
         THEN /\ lastReturn' = [call EXCEPT !.pc = "done", !.cacheKey = <<>>,
                                  !.afterInvalidate = FALSE, !.validAtInvalidate = {},
                                  !.result = Deny("User not authenticated")]
              /\ UNCHANGED <<permissionCache, storeStats, isCheckingPermissions,
                             error, invalidated, calls>>
         ELSE /\ permissionCache' = getCacheEntryCache(permissionCache, key, now)
              /\ invalidated' = IF call.afterInvalidate THEN NotInvalidated
                                ELSE invalidated
              /\ IF cached # NoResult
                 THEN /\ cacheHits' = cacheHits + 1
                      /\ lastReturn' = [call EXCEPT !.pc = "done", !.result = cached,
                                          !.hit = TRUE,
                                          !.computedFor = permissionCache[key].for.userId]
                      /\ UNCHANGED <<cacheMisses, isCheckingPermissions, error, calls>>
                 ELSE /\ cacheMisses' = cacheMisses + 1
                      /\ isCheckingPermissions' = TRUE
                      /\ error' = <<>>
                      /\ calls' = [calls EXCEPT ![c] =
                                     [call EXCEPT !.pc = "user",
                                        !.sawExpired = key \in DOMAIN permissionCache]]
                      /\ UNCHANGED <<cacheHits, lastReturn>>
  /\ UNCHANGED <<now, authUser, previousUserId, grants, serviceVars, loadedVars,
                 faults, lastServed>>

\* the usePermissions hook calls PermissionService.hasPermission directly
DirectCall(c, userId, req) ==
  /\ calls[c].pc = "idle"
  /\ lastReturn.pc = "idle"
  /\ nCalls < MaxCalls
  /\ nCalls' = nCalls + 1
  /\ calls' = [calls EXCEPT ![c] = [NewCall(c, "direct", userId, req) EXCEPT !.pc = "user"]]
  /\ UNCHANGED <<now, authUser, previousUserId, grants, serviceVars, permissionCache,
                 storeStats, isCheckingPermissions, error, loadedVars, faults,
                 histVars>>

\* the caller has taken the result of the call that returned
Return ==
  /\ lastReturn.pc = "done"
  /\ lastReturn' = IdleCall
  /\ UNCHANGED <<now, authUser, previousUserId, grants, serviceVars, permissionCache,
                 storeStats, isCheckingPermissions, error, loadedVars, calls, nCalls,
                 faults, lastServed, invalidated>>

\* dbService.getById('users', userId) answers
UserLoaded(c, outcome) ==
  /\ calls[c].pc = "user"
  /\ Lookup(outcome)
  /\ Finish(c, AfterUser(Noted(calls[c], "user", outcome), outcome,
                         userPermissionCache, now))
  /\ UNCHANGED <<now, authUser, previousUserId, grants, serviceVars, storeStats,
                 error, loadedVars, nCalls, invalidated>>

\* the user_permissions query of getUserDirectPermissions answers
GrantsLoaded(c, outcome) ==
  /\ calls[c].pc = "grants"
  /\ Lookup(outcome)
  /\ LET permissions ==
           IF outcome = "ok"
           THEN directPermissionsQuery(calls[c].userId, calls[c].qtime, grants)
           ELSE {}
     IN  /\ IF outcome = "ok"
            THEN /\ userPermissionCache' =
                      [u \in DOMAIN userPermissionCache \cup {calls[c].userId} |->
                        IF u = calls[c].userId THEN permissions
                        ELSE userPermissionCache[u]]
                 /\ timers' = timers \cup
                      {[userId |-> calls[c].userId,
                        due |-> now + USER_PERMISSION_CACHE_MS]}
            ELSE UNCHANGED serviceVars
         /\ Finish(c, AfterGrants(Noted(calls[c], "grants", outcome), permissions))
  /\ UNCHANGED <<now, authUser, previousUserId, grants, storeStats, error,
                 loadedVars, nCalls, invalidated>>

\* dbService.getById(tableName, resourceId) of checkOwnership answers
ResourceLoaded(c, outcome) ==
  /\ calls[c].pc = "resource"
  /\ Lookup(outcome)
  /\ LET ownershipCheck ==
           checkOwnershipResult(calls[c].userId, calls[c].resource,
                                calls[c].context.resource_id, outcome)
         call == Noted([calls[c] EXCEPT !.resourceOutcome = outcome],
                       "resource", outcome)
     IN  Finish(c, IF ~ownershipCheck.allowed THEN Done(call, ownershipCheck)
                   ELSE AfterOwnership(call))
  /\ UNCHANGED <<now, authUser, previousUserId, grants, serviceVars, storeStats,
                 error, loadedVars, nCalls, invalidated>>

\* the presensi query of checkCourseEnrollment answers
EnrollmentLoaded(c, outcome) ==
  /\ calls[c].pc = "enroll"
  /\ Lookup(outcome)
  /\ LET enrollmentCheck ==
           checkCourseEnrollmentResult(calls[c].userId, calls[c].context, outcome)
         call == Noted(calls[c], "enroll", outcome)
     IN  Finish(c, IF ~enrollmentCheck.allowed THEN Done(call, enrollmentCheck)
                   ELSE ContextAllowed(call))
  /\ UNCHANGED <<now, authUser, previousUserId, grants, serviceVars, storeStats,
                 error, loadedVars, nCalls, invalidated>>

\* the auth store sets another user (login, logout, switch); its subscriber runs:
\* clearCache(), then loadUserPermissions(currentUserId), which finds neither
\* PermissionService.getUserPermissions nor getRolePermissions and so completes
\* without awaiting
SetUser(u) ==
  /\ u # authUser
  /\ authUser' = u
  /\ IF u # previousUserId
     THEN /\ permissionCache' = <<>>
          /\ cacheHits' = 0
          /\ cacheMisses' = 0
          /\ lastServed' = <<>>
          /\ previousUserId' = u
          /\ IF u # <<>>
             THEN /\ userPermissions' = <<>>
                  /\ rolePermissions' = <<>>
                  /\ effectivePermissions' = <<>>
                  /\ isCheckingPermissions' = FALSE
                  /\ error' = <<>>
             ELSE UNCHANGED <<loadedVars, isCheckingPermissions, error>>
     ELSE UNCHANGED <<permissionCache, storeStats, lastServed, previousUserId,
                      loadedVars, isCheckingPermissions, error>>
  /\ UNCHANGED <<now, grants, serviceVars, calls, lastReturn, nCalls, faults,
                 invalidated>>

\* usePermissionStore.clearCache
ClearCache ==
  /\ permissionCache' = <<>>
  /\ cacheHits' = 0
  /\ cacheMisses' = 0
  /\ lastServed' = <<>>
  /\ UNCHANGED <<now, authUser, previousUserId, grants, serviceVars,
                 isCheckingPermissions, error, loadedVars, calls, lastReturn,
                 nCalls, faults, invalidated>>

\* usePermissionStore.clearUserCache
ClearUserCache(userId) ==
  /\ permissionCache' = clearUserCacheCache(permissionCache, userId)
  /\ lastServed' = Without(lastServed,
                           {k \in DOMAIN lastServed : k.userId = userId})
  /\ UNCHANGED <<now, authUser, previousUserId, grants, serviceVars, storeStats,
                 isCheckingPermissions, error, loadedVars, calls, lastReturn, nCalls,
                 faults>>

\* PermissionService.clearCache(userId?)
PermissionServiceClearCache(userId) ==
  /\ userPermissionCache' =
       IF userId # <<>> THEN Without(userPermissionCache, {userId}) ELSE <<>>
  /\ UNCHANGED <<now, authUser, previousUserId, grants, timers, permissionCache,
                 storeStats, isCheckingPermissions, error, loadedVars, calls,
                 nCalls, faults, histVars>>

\* a setTimeout callback of getUserDirectPermissions runs
TimerFire(t) ==
  /\ t \in timers
  /\ t.due <= now
  /\ timers' = timers \ {t}
  /\ userPermissionCache' = Without(userPermissionCache, {t.userId})
  /\ UNCHANGED <<now, authUser, previousUserId, grants, permissionCache,
                 storeStats, isCheckingPermissions, error, loadedVars, calls,
                 nCalls, faults, histVars>>

\* five minutes pass; a due timer runs before the clock moves on
Tick ==
  /\ now + TickMs <= MaxTicks * TickMs
  /\ \A t \in timers : t.due > now
  /\ now' = now + TickMs
  /\ UNCHANGED <<authUser, previousUserId, grants, serviceVars, permissionCache,
                 storeStats, isCheckingPermissions, error, loadedVars, calls,
                 nCalls, faults, histVars>>

\* a row of user_permissions is deleted
RevokeGrant(g) ==
  /\ g \in grants
  /\ grants' = grants \ {g}
  /\ UNCHANGED <<now, authUser, previousUserId, serviceVars, permissionCache,
                 storeStats, isCheckingPermissions, error, loadedVars, calls,
                 nCalls, faults, histVars>>

\* the returned call is history read by the properties; it is taken before the
\* next step
Taken == lastReturn.pc = "idle"

\* slots are interchangeable: a call takes the first free one
FirstFree(c) == c = "c1" \/ calls["c1"].pc # "idle"

NoneInFlight == \A c \in CallIds : calls[c].pc = "idle"

\* history: the grants that were valid when clearUserCache(userId) ran
NoteInvalidate(userId) ==
  invalidated' = [userId |-> userId, valid |-> ValidGrants(userId, now, grants)]

\* the permission store under identity changes and invalidations; every lookup
\* answers
Next ==
  \/ Taken /\ \E c \in CallIds, req \in StoreRequests :
                FirstFree(c) /\ CheckPermission(c, req) /\ UNCHANGED extraVars
  \/ Taken /\ \E c \in CallIds : UserLoaded(c, "ok") /\ UNCHANGED extraVars
  \/ Taken /\ \E c \in CallIds : GrantsLoaded(c, "ok") /\ UNCHANGED extraVars
  \/ Taken /\ \E c \in CallIds : ResourceLoaded(c, "ok") /\ UNCHANGED extraVars
  \/ Taken /\ \E u \in AuthUsers \cup {<<>>} : SetUser(u) /\ UNCHANGED extraVars
  \/ Taken /\ ClearCache /\ UNCHANGED extraVars
  \/ Taken /\ \E u \in AuthUsers : ClearUserCache(u) /\ UNCHANGED invalidated /\ UNCHANGED extraVars
  \/ Taken /\ \E t \in timers : TimerFire(t) /\ UNCHANGED extraVars
  \/ Taken /\ Tick /\ UNCHANGED extraVars
  \/ Return /\ UNCHANGED extraVars

Spec == Init /\ [][Next]_vars

\* hasPermission arguments that are no resource:action pair: an empty resource,
\* an empty action, a resource and an action that contain ':'
MalformedRequests ==
  {[resource |-> <<>>, action |-> <<"read">>, context |-> NoContext],
   [resource |-> <<"reports">>, action |-> <<>>, context |-> NoContext],
   [resource |-> <<"reports", ":", "read">>, action |-> <<"read">>,
    context |-> NoContext],
   [resource |-> <<"reports">>, action |-> <<"read", ":", "all">>,
    context |-> NoContext]}

\* direct evaluations, one at a time, over the wide input vocabulary
EvalRequests ==
  {[resource |-> r, action |-> a, context |-> x] :
     r \in EvalResources, a \in EvalActions, x \in EvalContexts}
  \cup MalformedRequests

NextEval ==
  \/ \E u \in EvalUsers, req \in EvalRequests : DirectCall("c1", u, req) /\ UNCHANGED extraVars
  \/ \E o \in Outcomes : UserLoaded("c1", o) /\ UNCHANGED extraVars
  \/ \E o \in Outcomes : GrantsLoaded("c1", o) /\ UNCHANGED extraVars
  \/ \E o \in Outcomes : ResourceLoaded("c1", o) /\ UNCHANGED extraVars
  \/ \E o \in Outcomes : EnrollmentLoaded("c1", o) /\ UNCHANGED extraVars
  \/ Return /\ UNCHANGED extraVars

SpecEval == Init /\ [][NextEval]_vars

\* the permission store of one principal while its grants expire or are revoked;
\* a lookup answers within the five minutes in which it was made
NextGrants ==
  \/ Taken /\ SetUser(<<"m1">>) /\ UNCHANGED extraVars
  \/ Taken /\ \E c \in CallIds, req \in StoreRequests :
                FirstFree(c) /\ CheckPermission(c, req) /\ UNCHANGED extraVars
  \/ Taken /\ \E c \in CallIds : UserLoaded(c, "ok") /\ UNCHANGED extraVars
  \/ Taken /\ \E c \in CallIds : GrantsLoaded(c, "ok") /\ UNCHANGED extraVars
  \/ Taken /\ \E c \in CallIds : ResourceLoaded(c, "ok") /\ UNCHANGED extraVars
  \/ Taken /\ \E u \in AuthUsers : ClearUserCache(u) /\ NoteInvalidate(u) /\ UNCHANGED extraVars
  \/ Taken /\ \E u \in AuthUsers \cup {<<>>} : PermissionServiceClearCache(u) /\ UNCHANGED extraVars
  \/ Taken /\ \E t \in timers : TimerFire(t) /\ UNCHANGED extraVars
  \/ Taken /\ NoneInFlight /\ Tick /\ UNCHANGED extraVars
  \/ Taken /\ \E g \in {x \in grants : x.user_id \in AuthUsers} : RevokeGrant(g) /\ UNCHANGED extraVars
  \/ Return /\ UNCHANGED extraVars

SpecGrants == Init /\ [][NextGrants]_vars

\* the principals of the invalidation runs: m1, and an id without a row in
\* users of which the id m1 is a proper prefix
InvalidateUsers == {<<"m1">>, <<"m1", "0">>}

\* history: the call that invalidates, the cache it found and whether an
\* evaluation was pending
NoteCleared(by, userId) ==
  cleared' = [by |-> by, userId |-> userId, before |-> permissionCache,
              pending |-> ~NoneInFlight]

\* the permission store under clearCache and clearUserCache, without expiry
NextInvalidate ==
  \/ Taken /\ \E u \in InvalidateUsers : SetUser(u) /\ UNCHANGED extraVars
  \/ Taken /\ \E c \in CallIds, req \in StoreRequests :
                FirstFree(c) /\ CheckPermission(c, req) /\ UNCHANGED extraVars
  \/ Taken /\ \E c \in CallIds : UserLoaded(c, "ok") /\ UNCHANGED extraVars
  \/ Taken /\ \E c \in CallIds : GrantsLoaded(c, "ok") /\ UNCHANGED extraVars
  \/ Taken /\ \E c \in CallIds : ResourceLoaded(c, "ok") /\ UNCHANGED extraVars
  \/ Taken /\ ClearCache /\ NoteCleared("clearCache", <<>>)
           /\ UNCHANGED <<batch, renderVars>>
  \/ Taken /\ \E u \in InvalidateUsers :
                /\ ClearUserCache(u) /\ UNCHANGED invalidated
                /\ NoteCleared("clearUserCache", u)
                /\ UNCHANGED <<batch, renderVars>>
  \/ Return /\ UNCHANGED extraVars

SpecInvalidate == Init /\ [][NextInvalidate]_vars

\* checkPermission requests of a mahasiswa on courses and grades, with and
\* without a course, and one that needs a direct grant
EnrollRequests ==
  {[resource |-> r, action |-> <<"read">>, context |-> x] :
     r \in {<<"courses">>, <<"grades">>},
     x \in {NoContext, Ctx(<<>>, <<"c1">>), Ctx(<<>>, <<"c2">>),
            Ctx(<<"r1">>, <<"c1">>), Ctx(<<"r1">>, <<"c2">>)}}
  \cup {[resource |-> <<"reports">>, action |-> <<"export">>, context |-> NoContext]}

\* the mahasiswa principals: m1 has presensi rows, m2 has none
EnrollUsers == {<<"m1">>, <<"m2">>}

\* the permission store of a mahasiswa whose requests name courses; the stores
\* do not change and every lookup answers
NextEnroll ==
  \/ Taken /\ \E u \in EnrollUsers : SetUser(u) /\ UNCHANGED extraVars
  \/ Taken /\ \E req \in EnrollRequests : CheckPermission("c1", req) /\ UNCHANGED extraVars
  \/ Taken /\ UserLoaded("c1", "ok") /\ UNCHANGED extraVars
  \/ Taken /\ GrantsLoaded("c1", "ok") /\ UNCHANGED extraVars
  \/ Taken /\ ResourceLoaded("c1", "ok") /\ UNCHANGED extraVars
  \/ Taken /\ EnrollmentLoaded("c1", "ok") /\ UNCHANGED extraVars
  \/ Return /\ UNCHANGED extraVars

SpecEnroll == Init /\ [][NextEnroll]_vars

\* checkPermission requests whose resource or action contains the separator:
\* ('reports:read', 'x') and ('reports', 'read:x'), beside the usual ones
KeyRequests ==
  StoreRequests \cup
  {[resource |-> <<"reports", ":", "read">>, action |-> <<"x">>, context |-> NoContext],
   [resource |-> <<"reports">>, action |-> <<"read", ":", "x">>, context |-> NoContext]}

\* the permission store of one principal over these requests
NextKeys ==
  \/ Taken /\ SetUser(<<"m1">>) /\ UNCHANGED extraVars
  \/ Taken /\ \E c \in CallIds, req \in KeyRequests :
                FirstFree(c) /\ CheckPermission(c, req) /\ UNCHANGED extraVars
  \/ Taken /\ \E c \in CallIds : UserLoaded(c, "ok") /\ UNCHANGED extraVars
  \/ Taken /\ \E c \in CallIds : GrantsLoaded(c, "ok") /\ UNCHANGED extraVars
  \/ Taken /\ \E c \in CallIds : ResourceLoaded(c, "ok") /\ UNCHANGED extraVars
  \/ Return /\ UNCHANGED extraVars

SpecKeys == Init /\ [][NextKeys]_vars

\* checkPermission requests that reach each of the four lookups
FaultRequests ==
  {[resource |-> <<"reports">>, action |-> <<"export">>, context |-> NoContext],
   [resource |-> <<"reports">>, action |-> <<"read">>, context |-> Ctx(<<"r1">>, <<>>)],
   [resource |-> <<"courses">>, action |-> <<"read">>, context |-> Ctx(<<>>, <<"c1">>)]}

\* the permission store of one principal, one call at a time, while lookups
\* fail and time passes
NextFaults ==
  \/ Taken /\ SetUser(<<"m1">>) /\ UNCHANGED extraVars
  \/ Taken /\ \E req \in FaultRequests : CheckPermission("c1", req) /\ UNCHANGED extraVars
  \/ Taken /\ \E o \in Outcomes : UserLoaded("c1", o) /\ UNCHANGED extraVars
  \/ Taken /\ \E o \in Outcomes : GrantsLoaded("c1", o) /\ UNCHANGED extraVars
  \/ Taken /\ \E o \in Outcomes : ResourceLoaded("c1", o) /\ UNCHANGED extraVars
  \/ Taken /\ \E o \in Outcomes : EnrollmentLoaded("c1", o) /\ UNCHANGED extraVars
  \/ Taken /\ \E t \in timers : TimerFire(t) /\ UNCHANGED extraVars
  \/ Taken /\ NoneInFlight /\ Tick /\ UNCHANGED extraVars
  \/ Return /\ UNCHANGED extraVars

SpecFaults == Init /\ [][NextFaults]_vars

\* useAuth().user as RoleGuard sees it: no user, a user without role, a role
GuardUsers == {"null", "norole"} \cup UserRole

\* what RoleGuard returns
RoleGuardRender(user, requiredRole, exact, fallback, loading) ==
  IF loading THEN "LoadingState"
  ELSE IF user = "null" THEN "UnauthorizedPage"
  ELSE IF user = "norole" THEN "UnauthorizedPage"
  ELSE LET hasAccess == IF exact THEN user = requiredRole
                        ELSE canRoleAccess(user, requiredRole)
       IN  IF ~hasAccess
           THEN (IF fallback THEN "fallback" ELSE "UnauthorizedPage")
           ELSE "children"

\* a RoleGuard is rendered
RoleGuard(user, requiredRole, exact, fallback, loading) ==
  /\ guard' = [user |-> user, requiredRole |-> requiredRole, exact |-> exact,
               fallback |-> fallback, loading |-> loading,
               rendered |-> RoleGuardRender(user, requiredRole, exact, fallback,
                                            loading)]
  /\ UNCHANGED <<coreVars, batch, cleared, secure, pguard>>

\* renderings of RoleGuard over every user, required role and flag
NextRole ==
  \E user \in GuardUsers, requiredRole \in UserRole,
     exact \in BOOLEAN, fallback \in BOOLEAN, loading \in BOOLEAN :
    RoleGuard(user, requiredRole, exact, fallback, loading)

SpecRole == Init /\ [][NextRole]_vars

\* what MultiRoleGuard returns
MultiRoleGuardRender(user, allowedRoles, fallback, loading) ==
  IF loading THEN "LoadingState"
  ELSE IF user = "null" \/ user = "norole" \/ user \notin allowedRoles
       THEN (IF fallback THEN "fallback" ELSE "UnauthorizedPage")
       ELSE "children"

\* what PermissionGuard returns for the state of usePermissionCheck; allowed is
\* "null" until the first check has completed
PermissionGuardRender(allowed, loading, showLoading, fallback) ==
  IF loading /\ showLoading THEN "LoadingState"
  ELSE IF allowed # "true"
       THEN (IF fallback THEN "fallback" ELSE "UnauthorizedPage")
       ELSE "children"

\* the states of usePermissionCheck: before the first completion, after a
\* completion, and during a later check
HookStates ==
  {[allowed |-> "null", loading |-> TRUE]} \cup
  {[allowed |-> a, loading |-> l] : a \in {"true", "false"}, l \in BOOLEAN}

\* what SecureComponent returns for its props, useAuth() and the hook state:
\* noAccessFallback is null with hideOnNoAccess, and a fallback that is null
\* renders nothing
SecureComponentRender(props, user, loading, hook) ==
  LET noAccessFallback == IF props.hideOnNoAccess THEN FALSE ELSE props.fallback
      shown(out) == IF out = "fallback" /\ ~noAccessFallback THEN "nothing" ELSE out
  IN  CASE props.mode = "permission" ->
             shown(PermissionGuardRender(hook.allowed, hook.loading,
                                         ~props.hideOnNoAccess, noAccessFallback))
        [] props.mode = "role" ->
             shown(RoleGuardRender(user, props.requiredRole, props.exact,
                                   noAccessFallback, loading))
        [] props.mode = "roles" ->
             shown(MultiRoleGuardRender(user, props.roles, noAccessFallback, loading))
        [] OTHER -> "children"

\* the props of a SecureComponent
SecureProps(mode, hideOnNoAccess, fallback, requiredRole, exact, roles) ==
  [mode |-> mode, hideOnNoAccess |-> hideOnNoAccess, fallback |-> fallback,
   requiredRole |-> requiredRole, exact |-> exact, roles |-> roles]

\* the hook state where no usePermissionCheck is involved
NoHook == [allowed |-> "null", loading |-> FALSE]

\* a SecureComponent is rendered
SecureComponent(props, user, loading, hook) ==
  /\ secure' = [mode |-> props.mode, hideOnNoAccess |-> props.hideOnNoAccess,
                fallback |-> props.fallback, user |-> user,
                requiredRole |-> props.requiredRole, exact |-> props.exact,
                roles |-> props.roles, allowed |-> hook.allowed,
                loading |-> IF props.mode = "permission" THEN hook.loading
                            ELSE loading,
                rendered |-> SecureComponentRender(props, user, loading, hook)]
  /\ UNCHANGED <<coreVars, batch, cleared, guard, pguard>>

\* the allowedRoles lists of the roles mode
RoleLists == {{"admin"}, {"dosen", "laboran"}}

\* renderings of SecureComponent in each mode
NextSecure ==
  \/ \E hideOnNoAccess \in BOOLEAN, fallback \in BOOLEAN, hook \in HookStates :
       SecureComponent(SecureProps("permission", hideOnNoAccess, fallback, "none",
                                   FALSE, {}),
                       "none", FALSE, hook)
  \/ \E hideOnNoAccess \in BOOLEAN, fallback \in BOOLEAN, user \in GuardUsers,
        requiredRole \in UserRole, exact \in BOOLEAN, loading \in BOOLEAN :
       SecureComponent(SecureProps("role", hideOnNoAccess, fallback, requiredRole,
                                   exact, {}),
                       user, loading, NoHook)
  \/ \E hideOnNoAccess \in BOOLEAN, fallback \in BOOLEAN, user \in GuardUsers,
        roles \in RoleLists, loading \in BOOLEAN :
       SecureComponent(SecureProps("roles", hideOnNoAccess, fallback, "none",
                                   FALSE, roles),
                       user, loading, NoHook)
  \/ \E hideOnNoAccess \in BOOLEAN, fallback \in BOOLEAN :
       SecureComponent(SecureProps("open", hideOnNoAccess, fallback, "none",
                                   FALSE, {}),
                       "none", FALSE, NoHook)

SpecSecure == Init /\ [][NextSecure]_vars

\* ------------------------------------------------------- PermissionGuard
\* the (resource, action, context) props given to the PermissionGuard of m1:
\* a role default, a permission m1 does not hold, a report of another owner
GuardRequests ==
  {[resource |-> <<"reports">>, action |-> <<"read">>, context |-> NoContext],
   [resource |-> <<"users">>, action |-> <<"create">>, context |-> NoContext],
   [resource |-> <<"reports">>, action |-> <<"read">>, context |-> Ctx(<<"r2">>, <<>>)]}

\* useAuth().user.id of the guard
GuardPrincipal == <<"m1">>

\* the guard with its output for its current props and hook state
Rendered(g) ==
  [g EXCEPT !.rendered =
     PermissionGuardRender(g.allowed, g.loading, g.showLoading, g.fallback)]

\* PermissionGuard is mounted: the first render, with allowed = null and
\* loading = true; the effect of usePermissionCheck is still to run
Mount(req, showLoading, fallback) ==
  /\ ~pguard.mounted
  /\ pguard' = Rendered([NoPermissionGuard EXCEPT
                           !.mounted = TRUE, !.resource = req.resource,
                           !.action = req.action, !.context = req.context,
                           !.showLoading = showLoading, !.fallback = fallback,
                           !.loading = TRUE, !.effectPending = TRUE])
  /\ UNCHANGED <<coreVars, batch, cleared, guard, secure>>

\* the parent renders the guard with other props: the render uses the hook
\* state as it is, the effect runs after it
PropsChange(req) ==
  /\ pguard.mounted
  /\ ~pguard.effectPending
  /\ req # [resource |-> pguard.resource, action |-> pguard.action,
            context |-> pguard.context]
  /\ pguard' = Rendered([pguard EXCEPT !.resource = req.resource,
                                       !.action = req.action,
                                       !.context = req.context,
                                       !.effectPending = TRUE])
  /\ UNCHANGED <<coreVars, batch, cleared, guard, secure>>

\* the effect runs: setLoading(true), then checkPermission of the hook up to
\* the first lookup of PermissionService.hasPermission
EffectRun(c) ==
  /\ pguard.effectPending
  /\ calls[c].pc = "idle"
  /\ nCalls < MaxCalls
  /\ nCalls' = nCalls + 1
  /\ calls' = [calls EXCEPT ![c] =
                 [NewCall(c, "guard", GuardPrincipal,
                          [resource |-> pguard.resource, action |-> pguard.action,
                           context |-> pguard.context])
                    EXCEPT !.pc = "user"]]
  /\ pguard' = Rendered([pguard EXCEPT !.loading = TRUE, !.effectPending = FALSE])
  /\ UNCHANGED <<now, authUser, previousUserId, grants, serviceVars, permissionCache,
                 storeStats, isCheckingPermissions, error, loadedVars, faults,
                 histVars, batch, cleared, guard, secure>>

\* checkPerm resumes after await checkPermission(...): setResult, setAllowed,
\* setLoading(false), whichever check it was; a pending effect runs before the
\* state update is rendered
CheckResumed ==
  /\ lastReturn.pc = "done"
  /\ lastReturn.via = "guard"
  /\ ~pguard.effectPending
  /\ lastReturn' = IdleCall
  /\ pguard' = Rendered([pguard EXCEPT
                           !.result = lastReturn.result,
                           !.allowed = IF lastReturn.result.allowed THEN "true"
                                       ELSE "false",
                           !.loading = FALSE])
  /\ UNCHANGED <<now, authUser, previousUserId, grants, serviceVars, permissionCache,
                 storeStats, isCheckingPermissions, error, loadedVars, calls, nCalls,
                 faults, lastServed, invalidated, batch, cleared, guard, secure>>

\* a PermissionGuard under prop changes while its checks are pending
NextGuard ==
  \/ \E req \in GuardRequests, showLoading \in BOOLEAN, fallback \in BOOLEAN :
       Taken /\ Mount(req, showLoading, fallback)
  \/ \E req \in GuardRequests : Taken /\ PropsChange(req)
  \/ \E c \in CallIds : Taken /\ FirstFree(c) /\ EffectRun(c)
  \/ Taken /\ \E c \in CallIds : UserLoaded(c, "ok") /\ UNCHANGED extraVars
  \/ Taken /\ \E c \in CallIds : GrantsLoaded(c, "ok") /\ UNCHANGED extraVars
  \/ Taken /\ \E c \in CallIds : ResourceLoaded(c, "ok") /\ UNCHANGED extraVars
  \/ CheckResumed

SpecGuard == Init /\ [][NextGuard]_vars

\* ------------------------------------------------------------ batch calls
\* the pairs and lists given to hasAnyPermission and hasAllPermissions
BatchPairs ==
  {[resource |-> <<"reports">>, action |-> <<"read">>],
   [resource |-> <<"reports">>, action |-> <<"export">>],
   [resource |-> <<"users">>, action |-> <<"create">>]}

BatchLists ==
  {<<>>} \cup {<<p>> : p \in BatchPairs} \cup {<<p, q>> : p, q \in BatchPairs}

BatchUsers == {<<"a1">>, <<"d1">>, <<"m1">>}

BatchContexts == {NoContext, Ctx(<<"r2">>, <<>>)}

\* permissions.map(p => `${p.resource}:${p.action}`)
permissionStrings(permissions) ==
  [i \in 1..Len(permissions) |->
    requiredPermission(permissions[i].resource, permissions[i].action)]

hasAnyPermissionDenialLastOnly(permissions) ==
  Result(FALSE, <<"None of the required permissions found">>,
         IF permissions = <<>> THEN <<>>
         ELSE <<permissionStrings(permissions)[Len(permissions)]>>, NoContext)

\* hasAnyPermission: the denial after the loop
hasAnyPermissionDenial(permissions) ==
  Result(FALSE, <<"None of the required permissions found">>,
         permissionStrings(permissions), NoContext)

\* fp => `${fp.permission.resource}:${fp.permission.action}`, joined with ', '
joined(strings) ==
  LET RECURSIVE join(_)
      join(i) == IF i > Len(strings) THEN <<>>
                 ELSE (IF i = 1 THEN <<>> ELSE <<", ">>) \o strings[i] \o join(i + 1)
  IN  join(1)

hasAllPermissionsResultAllNamed(permissions, results) ==
  IF \E i \in 1..Len(results) : ~results[i].allowed
  THEN Result(FALSE, <<"Missing permissions: ">> \o joined(permissionStrings(permissions)),
              permissionStrings(permissions), NoContext)
  ELSE Allow("All permissions granted")

\* hasAllPermissions once Promise.all has resolved with results
hasAllPermissionsResult(permissions, results) ==
  LET zipped == [i \in 1..Len(results) |->
                   [result |-> results[i], permission |-> permissions[i]]]
      failedPermissions == SelectSeq(zipped, LAMBDA fp : ~fp.result.allowed)
      names == permissionStrings([i \in 1..Len(failedPermissions) |->
                                   failedPermissions[i].permission])
  IN  IF Len(failedPermissions) > 0
      THEN Result(FALSE, <<"Missing permissions: ">> \o joined(names), names, NoContext)
      ELSE Allow("All permissions granted")

\* the pending hasPermission call of the pair at index i
Slot(i) == IF i = 1 THEN "c1" ELSE "c2"

BatchCall(userId, permissions, context, i) ==
  [NewCall(Slot(i), "batch", userId,
           [resource |-> permissions[i].resource, action |-> permissions[i].action,
            context |-> context])
     EXCEPT !.pc = "user", !.index = i]

\* hasAnyPermission up to the first lookup of its first hasPermission
HasAnyPermission(userId, permissions, context) ==
  /\ batch.pc = "idle"
  /\ NoneInFlight
  /\ nCalls < MaxCalls
  /\ nCalls' = nCalls + 1
  /\ IF permissions = <<>>
     THEN /\ batch' = [IdleBatch EXCEPT !.pc = "done", !.kind = "any",
                         !.userId = userId, !.context = context,
                         !.result = hasAnyPermissionDenial(permissions)]
          /\ UNCHANGED calls
     ELSE /\ batch' = [IdleBatch EXCEPT !.pc = "running", !.kind = "any",
                         !.userId = userId, !.permissions = permissions,
                         !.context = context, !.started = 1]
          /\ calls' = [calls EXCEPT !["c1"] = BatchCall(userId, permissions, context, 1)]
  /\ UNCHANGED <<now, authUser, previousUserId, grants, serviceVars, permissionCache,
                 storeStats, isCheckingPermissions, error, loadedVars, faults,
                 histVars, renderVars, cleared>>

\* hasAnyPermission resumes after await this.hasPermission(...)
AnyResumed ==
  /\ batch.pc = "running"
  /\ batch.kind = "any"
  /\ lastReturn.pc = "done"
  /\ lastReturn' = IdleCall
  /\ LET b == [batch EXCEPT !.results = Append(@, lastReturn.result),
                           !.collected = @ \cup {lastReturn.index},
                           !.evaluated = Append(@, [resource |-> lastReturn.resource,
                                                    action |-> lastReturn.action])]
     IN  IF lastReturn.result.allowed
         THEN /\ batch' = [b EXCEPT !.pc = "done", !.result = lastReturn.result]
              /\ UNCHANGED calls
         ELSE IF batch.started < Len(batch.permissions)
         THEN /\ batch' = [b EXCEPT !.started = @ + 1]
              /\ calls' = [calls EXCEPT !["c1"] =
                             BatchCall(batch.userId, batch.permissions, batch.context,
                                       batch.started + 1)]
         ELSE /\ batch' = [b EXCEPT !.pc = "done",
                                    !.result = hasAnyPermissionDenial(batch.permissions)]
              /\ UNCHANGED calls
  /\ UNCHANGED <<now, authUser, previousUserId, grants, serviceVars, permissionCache,
                 storeStats, isCheckingPermissions, error, loadedVars, nCalls, faults,
                 lastServed, invalidated, renderVars, cleared>>

\* hasAllPermissions: permissions.map starts every hasPermission, each up to its
\* first lookup
HasAllPermissions(userId, permissions, context) ==
  /\ batch.pc = "idle"
  /\ NoneInFlight
  /\ nCalls < MaxCalls
  /\ nCalls' = nCalls + 1
  /\ IF permissions = <<>>
     THEN batch' = [IdleBatch EXCEPT !.pc = "done", !.kind = "all",
                      !.userId = userId, !.context = context,
                      !.result = hasAllPermissionsResult(permissions, <<>>)]
     ELSE batch' = [IdleBatch EXCEPT !.pc = "running", !.kind = "all",
                      !.userId = userId, !.permissions = permissions,
                      !.context = context, !.started = Len(permissions),
                      !.results = [i \in 1..Len(permissions) |-> NoResult],
                      !.evaluated = [i \in 1..Len(permissions) |->
                                      [resource |-> <<>>, action |-> <<>>]]]
  /\ calls' = [c \in CallIds |->
                IF \E i \in 1..Len(permissions) : Slot(i) = c
                THEN BatchCall(userId, permissions, context,
                               CHOOSE i \in 1..Len(permissions) : Slot(i) = c)
                ELSE calls[c]]
  /\ UNCHANGED <<now, authUser, previousUserId, grants, serviceVars, permissionCache,
                 storeStats, isCheckingPermissions, error, loadedVars, faults,
                 histVars, renderVars, cleared>>

\* one promise of Promise.all resolves; with the last one hasAllPermissions
\* resumes and returns
AllResolved ==
  /\ batch.pc = "running"
  /\ batch.kind = "all"
  /\ lastReturn.pc = "done"
  /\ lastReturn' = IdleCall
  /\ LET b == [batch EXCEPT !.results[lastReturn.index] = lastReturn.result,
                           !.collected = @ \cup {lastReturn.index},
                           !.evaluated[lastReturn.index] =
                              [resource |-> lastReturn.resource,
                               action |-> lastReturn.action]]
     IN  IF b.collected = 1..Len(batch.permissions)
         THEN batch' = [b EXCEPT !.pc = "done",
                          !.result = hasAllPermissionsResult(b.permissions, b.results)]
         ELSE batch' = b
  /\ UNCHANGED <<now, authUser, previousUserId, grants, serviceVars, permissionCache,
                 storeStats, isCheckingPermissions, error, loadedVars, calls, nCalls,
                 faults, lastServed, invalidated, renderVars, cleared>>

\* the caller has taken the result of the batch call
BatchReturn ==
  /\ batch.pc = "done"
  /\ batch' = IdleBatch
  /\ UNCHANGED <<coreVars, renderVars, cleared>>

\* batch calls, one at a time, over every outcome of their lookups
NextBatch ==
  \/ \E u \in BatchUsers, l \in BatchLists, x \in BatchContexts :
       batch.pc = "idle" /\ HasAnyPermission(u, l, x)
  \/ \E u \in BatchUsers, l \in BatchLists, x \in BatchContexts :
       batch.pc = "idle" /\ HasAllPermissions(u, l, x)
  \/ Taken /\ \E c \in CallIds, o \in Outcomes : UserLoaded(c, o) /\ UNCHANGED extraVars
  \/ Taken /\ \E c \in CallIds, o \in Outcomes : GrantsLoaded(c, o) /\ UNCHANGED extraVars
  \/ Taken /\ \E c \in CallIds, o \in Outcomes : ResourceLoaded(c, o) /\ UNCHANGED extraVars
  \/ AnyResumed
  \/ AllResolved
  \/ BatchReturn

SpecBatch == Init /\ [][NextBatch]_vars

\* ------------------------------------------------------------ properties
Returned == lastReturn.pc = "done"

Defaults(role) == ROLE_HIERARCHY[role].default_permissions

NonAdmin(call) == call.role \in {"dosen", "laboran", "mahasiswa"}

\* the call holds resource:action by role default or by a resolved direct grant
Holds(call) ==
  \/ Required(call) \in Defaults(call.role)
  \/ call.consulted /\ Required(call) \in call.resolved

OwnedKind(call) ==
  /\ call.resource \in {<<"reports">>, <<"loans">>, <<"grades">>, <<"attendance">>}
  /\ call.context.resource_id # <<>>

\* the owner of the record the call's context names, <<>> when there is no record
OwnerOf(call) ==
  LET table == CASE call.resource = <<"reports">> -> "laporan_mahasiswa"
                 [] call.resource = <<"loans">> -> "peminjaman_alat"
                 [] call.resource = <<"grades">> -> "penilaian"
                 [] OTHER -> "presensi"
      field == IF call.resource = <<"loans">> THEN "peminjam_id" ELSE "mahasiswa_id"
      rows == {r \in ResourceRows(table) : r["id"] = call.context.resource_id}
  IN  IF rows = {} THEN <<>> ELSE (CHOOSE r \in rows : TRUE)[field]

\* C1: hasPermission for a principal that loads with role admin returns
\* allowed = true, whatever the resource, the action and the context.
C1_AdminOverride ==
  Returned /\ lastReturn.role = "admin" => lastReturn.result.allowed

\* an admin evaluation on a record that does not exist
C1_Witness ==
  /\ Returned
  /\ lastReturn.role = "admin"
  /\ lastReturn.resource = <<"reports">>
  /\ lastReturn.context.resource_id = <<"r9">>
  /\ lastReturn.result.allowed

\* the principal has no row in user_permissions and no cached direct permission
NoDirectGrants(call) ==
  /\ \A g \in grants : g.user_id # call.userId
  /\ call.userId \in DOMAIN userPermissionCache => userPermissionCache[call.userId] = {}

C4_ContextOnlyNarrows ==
  Returned /\ NonAdmin(lastReturn) /\ lastReturn.result.allowed => Holds(lastReturn)

\* an allow on the grant path after the ownership check ran
C4_Witness ==
  /\ Returned
  /\ NonAdmin(lastReturn)
  /\ lastReturn.result.allowed
  /\ lastReturn.consulted
  /\ Required(lastReturn) \notin Defaults(lastReturn.role)
  /\ lastReturn.resourceOutcome = "ok"

\* C5 as stated: with the permission held and a resource_id on an owned kind, a
\* record of another owner gives 'Not resource owner', a record that cannot be
\* loaded gives 'Resource not found', and an allow needs the principal to own it.
C5_AsStated ==
  ( /\ Returned
    /\ NonAdmin(lastReturn)
    /\ Holds(lastReturn)
    /\ OwnedKind(lastReturn) )
  => LET loaded == lastReturn.resourceOutcome = "ok" /\ OwnerOf(lastReturn) # <<>>
     IN  /\ loaded /\ OwnerOf(lastReturn) # lastReturn.userId =>
              /\ ~lastReturn.result.allowed
              /\ lastReturn.result.reason = <<"Not resource owner">>
         /\ ~loaded =>
              /\ ~lastReturn.result.allowed
              /\ lastReturn.result.reason = <<"Resource not found">>
         /\ lastReturn.result.allowed => OwnerOf(lastReturn) = lastReturn.userId

\* C5 amended: as stated, except that a lookup that throws gives the denial
\* 'Ownership check failed'; 'Resource not found' is the denial when the lookup
\* answers with an error or without a record.
C5_OwnershipNarrows ==
  ( /\ Returned
    /\ NonAdmin(lastReturn)
    /\ Holds(lastReturn)
    /\ OwnedKind(lastReturn) )
  => LET loaded == lastReturn.resourceOutcome = "ok" /\ OwnerOf(lastReturn) # <<>>
     IN  /\ loaded /\ OwnerOf(lastReturn) # lastReturn.userId =>
              /\ ~lastReturn.result.allowed
              /\ lastReturn.result.reason = <<"Not resource owner">>
         /\ ~loaded /\ lastReturn.resourceOutcome # "throw" =>
              /\ ~lastReturn.result.allowed
              /\ lastReturn.result.reason = <<"Resource not found">>
         /\ lastReturn.resourceOutcome = "throw" =>
              /\ ~lastReturn.result.allowed
              /\ lastReturn.result.reason = <<"Ownership check failed">>
         /\ lastReturn.result.allowed => OwnerOf(lastReturn) = lastReturn.userId

\* a mahasiswa reads a report of another owner: the role allows, ownership denies
C5_Witness ==
  /\ Returned
  /\ lastReturn.userId = <<"m1">>
  /\ lastReturn.resource = <<"reports">>
  /\ lastReturn.action = <<"read">>
  /\ lastReturn.context.resource_id = <<"r2">>
  /\ lastReturn.result.reason = <<"Not resource owner">>

\* the request a checkPermission(req) by the active principal makes
ActiveRequest(req) ==
  [userId |-> authUser, resource |-> req.resource, action |-> req.action,
   context |-> req.context]

\* C6 as stated: the second of two sequential checkPermission calls with the
\* same (principal id, resource, action, context), made within the TTL of the
\* entry the first one wrote or read and with no clearCache or clearUserCache in
\* between, returns the result the first one returned.
C6_AsStated ==
  [][\A c \in CallIds, req \in StoreRequests :
       ( /\ CheckPermission(c, req)
         /\ authUser # <<>>
         /\ ActiveRequest(req) \in DOMAIN lastServed )
       => \A e \in lastServed[ActiveRequest(req)].all :
            now - e.at <= 10 * 60 * 1000
            => lastReturn'.pc = "done" /\ lastReturn'.result = e.result]_vars

\* C6: the second of two sequential checkPermission calls with the same
\* (principal id, resource, action, context), made within the TTL of the entry
\* and with no clearCache or clearUserCache and no completion of another
\* evaluation of the same request in between, returns the same result, adds 1
\* to cacheHits, leaves cacheMisses alone and starts no
\* PermissionService.hasPermission.
C6_CacheIdempotence ==
  [][\A c \in CallIds, req \in StoreRequests :
       ( /\ CheckPermission(c, req)
         /\ authUser # <<>>
         /\ ActiveRequest(req) \in DOMAIN lastServed
         /\ now - lastServed[ActiveRequest(req)].last.at <= 10 * 60 * 1000 )
       => /\ lastReturn'.pc = "done"
          /\ lastReturn'.result = lastServed[ActiveRequest(req)].last.result
          /\ cacheHits' = cacheHits + 1
          /\ cacheMisses' = cacheMisses
          /\ calls' = calls]_vars

\* a hit exactly ten minutes after the entry was written
C6_Witness ==
  /\ Returned
  /\ lastReturn.hit
  /\ lastReturn.cacheKey \in DOMAIN permissionCache
  /\ now - permissionCache[lastReturn.cacheKey].timestamp = 10 * 60 * 1000
  /\ cacheHits >= 1

\* C7: the result a checkPermission call returns was computed for the principal
\* that was active when the call started.
C7_NoCrossPrincipalReuse ==
  Returned /\ lastReturn.via = "store" => lastReturn.computedFor = lastReturn.activeAtStart

\* a hit for one principal while the cache also holds the entry that a call of
\* another principal, in flight over the identity change, wrote for the same
\* resource, action and context
C7_Witness ==
  /\ Returned
  /\ lastReturn.hit
  /\ \E k \in DOMAIN permissionCache :
       /\ permissionCache[k].for.userId # lastReturn.userId
       /\ permissionCache[k].for.resource = lastReturn.resource
       /\ permissionCache[k].for.action = lastReturn.action
       /\ permissionCache[k].for.context = lastReturn.context

\* C8 as stated: the identity-change handler runs with the change, so at all
\* times the cache holds no entry under a key of a principal that is not the
\* active one.
C8_AsStated ==
  \A u \in AuthUsers \ {authUser} :
    \A k \in DOMAIN permissionCache : ~startsWith(k, u \o <<":">>)

\* C9: a checkPermission that reads an entry older than its ttl removes it,
\* counts a miss and re-evaluates; one that reads an entry within its ttl returns
\* the stored result and leaves the cache as it is; entries under other keys
\* are unchanged in both cases.
C9_ExpiryOnRead ==
  [][\A c \in CallIds, req \in StoreRequests :
       LET key == authUser \o <<":">> \o req.resource \o <<":">> \o req.action
                    \o <<":">> \o JSONstringify(req.context)
       IN  ( /\ CheckPermission(c, req)
             /\ authUser # <<>>
             /\ key \in DOMAIN permissionCache )
           => IF now - permissionCache[key].timestamp > permissionCache[key].ttl
              THEN /\ key \notin DOMAIN permissionCache'
                   /\ DOMAIN permissionCache' = DOMAIN permissionCache \ {key}
                   /\ \A k \in DOMAIN permissionCache' :
                        permissionCache'[k] = permissionCache[k]
                   /\ cacheMisses' = cacheMisses + 1
                   /\ cacheHits' = cacheHits
                   /\ calls'[c].pc = "user"
                   /\ lastReturn' = lastReturn
              ELSE /\ lastReturn'.pc = "done"
                   /\ lastReturn'.result = permissionCache[key].result
                   /\ permissionCache' = permissionCache]_vars

\* a call has just removed the expired entry of its key, another entry stays
C9_Witness ==
  \E c \in CallIds :
    /\ calls[c].pc = "user"
    /\ calls[c].sawExpired
    /\ calls[c].cacheKey \notin DOMAIN permissionCache
    /\ DOMAIN permissionCache # {}

\* a grant of the call's permission to its principal that is valid at time t
ValidGrantAt(call, t) ==
  \E g \in GrantUniverse :
    /\ g.user_id = call.userId
    /\ g.resource = call.resource
    /\ g.action = call.action
    /\ (g.expires_at = NoExpiry \/ g.expires_at > t)

RoleOf(userId) == UsersTable[userId].role

\* C3 as stated: an evaluation at time t of a permission that is no role default
\* and whose only grant has expires_at <= t is not allowed, whatever was fetched
\* or decided earlier.
C3_AsStated ==
  ( /\ Returned
    /\ lastReturn.userId \in DOMAIN UsersTable
    /\ RoleOf(lastReturn.userId) # "admin"
    /\ Required(lastReturn) \notin Defaults(RoleOf(lastReturn.userId))
    /\ ~ValidGrantAt(lastReturn, now) )
  => ~lastReturn.result.allowed

\* C10 as stated: the first checkPermission of a principal after
\* clearUserCache(principal) is not allowed a permission that is no role default
\* and for which no valid grant was in the grant store at the invalidation.
C10_AsStated ==
  ( /\ Returned
    /\ lastReturn.afterInvalidate
    /\ RoleOf(lastReturn.userId) # "admin"
    /\ Required(lastReturn) \notin Defaults(RoleOf(lastReturn.userId))
    /\ Required(lastReturn) \notin lastReturn.validAtInvalidate )
  => ~lastReturn.result.allowed

\* the reasons of the denials hasPermission builds for a failed lookup
FailureReasons ==
  {<<"User not found">>, <<"Permission check failed">>, <<"Resource not found">>,
   <<"Ownership check failed">>, <<"Enrollment check failed">>}

\* C13: an evaluation in which a lookup failed (answered with an error or
\* threw) returns a PermissionResult with allowed = false: a failure denial, or
\* the 'Missing permission' denial when the failed lookup was the grant query.
C13_FailClosed ==
  Returned /\ lastReturn.failedLookups # {}
  => /\ ~lastReturn.result.allowed
     /\ \/ lastReturn.result.reason \in FailureReasons
        \/ /\ lastReturn.failedLookups = {"grants"}
           /\ lastReturn.result = MissingPermission(Required(lastReturn))

\* the enrollment query of a mahasiswa that holds courses:read fails
C13_Witness ==
  /\ Returned
  /\ lastReturn.role = "mahasiswa"
  /\ lastReturn.resource = <<"courses">>
  /\ lastReturn.action = <<"read">>
  /\ lastReturn.failedLookups = {"enroll"}
  /\ lastReturn.result.reason = <<"Enrollment check failed">>

\* C14 as stated: an evaluation whose grant query failed returns the
\* resolution-failure reason 'Permission check failed', not the policy denial
\* 'Missing permission: resource:action'.
C14_AsStated ==
  Returned /\ "grants" \in lastReturn.failedLookups
  => /\ lastReturn.result.reason = <<"Permission check failed">>
     /\ lastReturn.result # MissingPermission(Required(lastReturn))

Malformed(call) ==
  \/ call.resource = <<>>
  \/ call.action = <<>>
  \/ \E i \in 1..Len(call.resource) : call.resource[i] = ":"
  \/ \E i \in 1..Len(call.action) : call.action[i] = ":"

\* C15 as stated: an evaluation of a malformed permission whose lookups all
\* answer returns neither an allow nor a 'Missing permission' denial.
C15_AsStated ==
  Returned /\ Malformed(lastReturn) /\ lastReturn.failedLookups = {}
  => /\ ~lastReturn.result.allowed
     /\ lastReturn.result # MissingPermission(Required(lastReturn))

level(role) == ROLE_HIERARCHY[role].level

\* C18 as stated: a principal with no direct grants and no context is allowed
\* every default permission of every role of a lower level than its own.
C18_AsStated ==
  ( /\ Returned
    /\ lastReturn.role \in UserRole
    /\ lastReturn.context = NoContext
    /\ NoDirectGrants(lastReturn)
    /\ lastReturn.failedLookups = {}
    /\ \E r2 \in UserRole : /\ level(lastReturn.role) > level(r2)
                            /\ Required(lastReturn) \in Defaults(r2) )
  => lastReturn.result.allowed

\* C19 as stated: for a principal of role admin whose context names a record of
\* an owned kind that belongs to someone else or does not exist, the ownership
\* evaluator's denial is the final result.
C19_AsStated ==
  ( /\ Returned
    /\ lastReturn.role = "admin"
    /\ OwnedKind(lastReturn)
    /\ OwnerOf(lastReturn) # lastReturn.userId )
  => ~lastReturn.result.allowed

Range(seq) == {seq[i] : i \in 1..Len(seq)}

\* C16 as stated: when the identity change to a non-admin principal has run
\* loadUserPermissions, rolePermissions holds the role's default permissions,
\* userPermissions the principal's non-expired direct grants, and
\* effectivePermissions their union.
C16_AsStated ==
  [][\A u \in AuthUsers :
       SetUser(u) /\ u # previousUserId /\ RoleOf(u) # "admin"
       => /\ Range(rolePermissions') = Defaults(RoleOf(u))
          /\ Range(userPermissions') = ValidGrants(u, now, grants)
          /\ Range(effectivePermissions') =
               Defaults(RoleOf(u)) \cup ValidGrants(u, now, grants)]_vars

\* C20: a checkPermission that finds no entry under its key counts one miss, no
\* hit, and starts PermissionService.hasPermission, also while another call for
\* the same key is pending; each such call writes the cache when it completes,
\* so that the one entry of the key holds the result of the call that completed
\* last.
C20_ConcurrentMisses ==
  [][ /\ ( /\ lastReturn'.pc = "done" /\ lastReturn'.via = "store"
           /\ ~lastReturn'.hit /\ lastReturn'.userId # <<>> )
         => /\ lastReturn'.cacheKey \in DOMAIN permissionCache'
            /\ permissionCache'[lastReturn'.cacheKey].result = lastReturn'.result
            /\ permissionCache'[lastReturn'.cacheKey].timestamp = now'
      /\ \A c \in CallIds, req \in StoreRequests :
          LET key == authUser \o <<":">> \o req.resource \o <<":">> \o req.action
                       \o <<":">> \o JSONstringify(req.context)
          IN  ( /\ CheckPermission(c, req)
                /\ authUser # <<>>
                /\ key \notin DOMAIN permissionCache )
              => /\ cacheMisses' = cacheMisses + 1
                 /\ cacheHits' = cacheHits
                 /\ calls'[c].pc = "user"
                 /\ permissionCache' = permissionCache ]_vars

\* two overlapping calls of one key have both missed and both completed, with
\* different outcomes; the cache holds the result of the second to complete
C20_Witness ==
  /\ Returned
  /\ lastReturn.via = "store"
  /\ ~lastReturn.hit
  /\ ~lastReturn.sawExpired
  /\ cacheMisses = 2
  /\ cacheHits = 0
  /\ Request(lastReturn) \in DOMAIN lastServed
  /\ Cardinality(lastServed[Request(lastReturn)].all) = 2
  /\ lastReturn.cacheKey \in DOMAIN permissionCache
  /\ permissionCache[lastReturn.cacheKey].result = lastReturn.result

\* C17: canRoleAccess(userRole, requiredRole) holds exactly when the level of
\* userRole is at least that of requiredRole, with admin 4, dosen 3, laboran 2,
\* mahasiswa 1: it is reflexive, transitive and total and admin satisfies every
\* role; a RoleGuard rendered for a user with a role shows its children exactly
\* when canRoleAccess holds (exact = false) or the roles are equal (exact = true).
C17_RoleHierarchy ==
  LET lvl == [r \in UserRole |->
                CASE r = "admin" -> 4 [] r = "dosen" -> 3
                  [] r = "laboran" -> 2 [] OTHER -> 1]
  IN  /\ \A r1, r2 \in UserRole : canRoleAccess(r1, r2) <=> lvl[r1] >= lvl[r2]
      /\ \A r \in UserRole : canRoleAccess(r, r)
      /\ \A r1, r2, r3 \in UserRole :
           canRoleAccess(r1, r2) /\ canRoleAccess(r2, r3) => canRoleAccess(r1, r3)
      /\ \A r1, r2 \in UserRole : canRoleAccess(r1, r2) \/ canRoleAccess(r2, r1)
      /\ \A r \in UserRole : canRoleAccess("admin", r)
      /\ guard.user \in UserRole /\ ~guard.loading
         => ( guard.rendered = "children"
              <=> IF guard.exact THEN guard.user = guard.requiredRole
                  ELSE lvl[guard.user] >= lvl[guard.requiredRole] )

\* a dosen passes a guard that requires laboran, and fails it when exact
C17_Witness ==
  /\ guard.user = "dosen"
  /\ guard.requiredRole = "laboran"
  /\ ~guard.loading
  /\ guard.rendered = IF guard.exact THEN "UnauthorizedPage" ELSE "children"
  /\ ~guard.fallback

\* 'resource:action' of the pair at index i of the batch call
PairString(i) ==
  batch.permissions[i].resource \o <<":">> \o batch.permissions[i].action

\* C11: hasAnyPermission evaluates the pairs in list order, stops at the first
\* pair whose evaluation is allowed and returns that result; when no pair is
\* allowed it has evaluated all of them and returns allowed = false with the
\* 'resource:action' of every pair, in list order, as required_permissions.
C11_BatchAny ==
  batch.pc = "done" /\ batch.kind = "any"
  => LET n == Len(batch.results)
     IN  /\ n <= Len(batch.permissions)
         /\ batch.started = n
         /\ \A c \in CallIds : calls[c].pc = "idle"
         /\ \A i \in 1..n : batch.evaluated[i] = batch.permissions[i]
         /\ \A i \in 1..(n - 1) : ~batch.results[i].allowed
         /\ IF n > 0 /\ batch.results[n].allowed
            THEN batch.result = batch.results[n]
            ELSE /\ n = Len(batch.permissions)
                 /\ ~batch.result.allowed
                 /\ Len(batch.result.required_permissions) = n
                 /\ \A i \in 1..n :
                      batch.result.required_permissions[i] = PairString(i)

\* any([users:create denied, reports:read allowed]) for a dosen: allowed
C11_Witness ==
  /\ batch.pc = "done"
  /\ batch.kind = "any"
  /\ batch.userId = <<"d1">>
  /\ Len(batch.permissions) = 2
  /\ Len(batch.results) = 2
  /\ ~batch.results[1].allowed
  /\ batch.result.allowed

\* the indices, in increasing order, of the pairs whose evaluation was denied
RECURSIVE DeniedFrom(_)
DeniedFrom(i) ==
  IF i > Len(batch.results) THEN <<>>
  ELSE (IF batch.results[i].allowed THEN <<>> ELSE <<i>>) \o DeniedFrom(i + 1)

\* C12: hasAllPermissions evaluates every pair, is allowed exactly when every
\* evaluation is allowed, and otherwise returns allowed = false with the
\* 'resource:action' of exactly the pairs whose evaluation was denied, in list
\* order, as required_permissions.
C12_BatchAll ==
  batch.pc = "done" /\ batch.kind = "all"
  => LET n == Len(batch.permissions)
         denied == DeniedFrom(1)
     IN  /\ Len(batch.results) = n
         /\ batch.collected = 1..n
         /\ \A i \in 1..n : batch.evaluated[i] = batch.permissions[i]
         /\ batch.result.allowed <=> \A i \in 1..n : batch.results[i].allowed
         /\ ~batch.result.allowed
            => /\ Len(batch.result.required_permissions) = Len(denied)
               /\ \A k \in 1..Len(denied) :
                    batch.result.required_permissions[k] = PairString(denied[k])

\* all([users:create denied, reports:read allowed]) for a dosen: denied, naming
\* users:create only
C12_Witness ==
  /\ batch.pc = "done"
  /\ batch.kind = "all"
  /\ batch.userId = <<"d1">>
  /\ Len(batch.permissions) = 2
  /\ ~batch.results[1].allowed
  /\ batch.results[2].allowed
  /\ ~batch.result.allowed
  /\ batch.result.required_permissions = << <<"users", ":", "create">> >>

\* the cache key checkPermission builds for a request
KeyOf(request) ==
  request.userId \o <<":">> \o request.resource \o <<":">> \o request.action
    \o <<":">> \o JSONstringify(request.context)

\* C21: calls on distinct cache keys do not interfere: the write of a completed
\* evaluation adds or replaces the entry of its own key and leaves every other
\* entry as it is, the expiry deletion of a checkPermission removes no entry of
\* another key, and once no call is pending the cache holds, for every request
\* evaluated since the last invalidation, the entry of its key with the result
\* of that request.
C21_NoInterference ==
  [][ /\ ( /\ lastReturn'.pc = "done" /\ lastReturn'.via = "store"
           /\ ~lastReturn'.hit /\ lastReturn'.userId # <<>> )
         => /\ DOMAIN permissionCache' = DOMAIN permissionCache \cup {lastReturn'.cacheKey}
            /\ permissionCache'[lastReturn'.cacheKey].result = lastReturn'.result
            /\ \A k \in DOMAIN permissionCache \ {lastReturn'.cacheKey} :
                 permissionCache'[k] = permissionCache[k]
      /\ \A c \in CallIds, req \in StoreRequests :
           CheckPermission(c, req) /\ authUser # <<>>
           => \A k \in DOMAIN permissionCache \ {KeyOf(ActiveRequest(req))} :
                k \in DOMAIN permissionCache' /\ permissionCache'[k] = permissionCache[k]
      /\ (\A c \in CallIds : calls'[c].pc = "idle")
         => \A request \in DOMAIN lastServed' :
              /\ KeyOf(request) \in DOMAIN permissionCache'
              /\ permissionCache'[KeyOf(request)].for = request
              /\ permissionCache'[KeyOf(request)].result = lastServed'[request].last.result
    ]_vars

\* an evaluation writes its entry while a call on another key, which has removed
\* the expired entry of that key, is still pending
C21_Witness ==
  /\ Returned
  /\ lastReturn.via = "store"
  /\ ~lastReturn.hit
  /\ lastReturn.cacheKey \in DOMAIN permissionCache
  /\ \E c \in CallIds :
       /\ calls[c].pc # "idle"
       /\ calls[c].sawExpired
       /\ calls[c].cacheKey # lastReturn.cacheKey
       /\ calls[c].cacheKey \notin DOMAIN permissionCache

\* C22: clearCache leaves no entry and clearUserCache(p) no entry of p, and a
\* checkPermission that returns a cached result returns one that an evaluation
\* of the same request has stored since the last clearCache and the last
\* clearUserCache of its principal; evaluations pending at the invalidation
\* complete and store their result.
C22_InvalidationVisible ==
  [][ /\ ClearCache => permissionCache' = <<>>
      /\ \A u \in InvalidateUsers :
           ClearUserCache(u)
           => \A k \in DOMAIN permissionCache' : permissionCache'[k].for.userId # u
      /\ \A c \in CallIds, req \in StoreRequests :
           CheckPermission(c, req) /\ authUser # <<>> /\ lastReturn'.pc = "done"
           => /\ ActiveRequest(req) \in DOMAIN lastServed
              /\ [result |-> lastReturn'.result,
                  at |-> permissionCache[KeyOf(ActiveRequest(req))].timestamp]
                   \in lastServed[ActiveRequest(req)].all
    ]_vars

\* a call started after clearUserCache(p), with no evaluation pending at that
\* moment, for a key that the invalidation removed: it evaluates again
C22_Witness ==
  /\ Returned
  /\ lastReturn.via = "store"
  /\ ~lastReturn.hit
  /\ cleared.by = "clearUserCache"
  /\ cleared.userId = lastReturn.userId
  /\ ~cleared.pending
  /\ lastReturn.cacheKey \in DOMAIN cleared.before

\* C27: clearUserCache(userId) removes the entries whose key was built for
\* userId and no other, leaves every other entry with its result, timestamp and
\* ttl, and leaves cacheHits, cacheMisses, userPermissions, rolePermissions and
\* effectivePermissions as they are; clearCache() empties the cache and sets
\* cacheHits and cacheMisses to 0.
C27_ClearFrame ==
  [][ /\ cleared' # cleared /\ cleared'.by = "clearUserCache"
         => /\ DOMAIN permissionCache' =
                 {k \in DOMAIN permissionCache :
                    permissionCache[k].for.userId # cleared'.userId}
            /\ \A k \in DOMAIN permissionCache' : permissionCache'[k] = permissionCache[k]
            /\ cacheHits' = cacheHits
            /\ cacheMisses' = cacheMisses
            /\ userPermissions' = userPermissions
            /\ rolePermissions' = rolePermissions
            /\ effectivePermissions' = effectivePermissions
      /\ cleared' # cleared /\ cleared'.by = "clearCache"
         => /\ permissionCache' = <<>>
            /\ cacheHits' = 0
            /\ cacheMisses' = 0
    ]_vars

\* clearUserCache('m1') has removed the entry of m1 and kept the entry of the
\* principal whose id begins with m1, and the counters still count both misses
C27_Witness ==
  /\ cleared.by = "clearUserCache"
  /\ cleared.userId = <<"m1">>
  /\ \E k \in DOMAIN cleared.before : cleared.before[k].for.userId = <<"m1">>
  /\ \E k \in DOMAIN permissionCache :
       /\ permissionCache[k].for.userId = <<"m1", "0">>
       /\ k \in DOMAIN cleared.before
       /\ permissionCache[k] = cleared.before[k]
  /\ \A k \in DOMAIN permissionCache : permissionCache[k].for.userId # <<"m1">>
  /\ cacheMisses >= 1

\* the lookup was made during the call
Looked(call, lookup) == \E i \in 1..Len(call.lookups) : call.lookups[i] = lookup

\* C23: for a mahasiswa that holds resource:action on courses or grades, with a
\* course_id in the context an allow means that the presensi query was made,
\* answered and found a record of the principal, and a query that finds none or
\* fails gives the denial 'Student not enrolled' or 'Enrollment check failed';
\* without a course_id the presensi query is not made and the enrollment check
\* allows, so that the result is allowed unless the ownership check denies.
C23_Enrollment ==
  ( /\ Returned
    /\ lastReturn.role = "mahasiswa"
    /\ Holds(lastReturn)
    /\ lastReturn.resource \in {<<"courses">>, <<"grades">>} )
  => IF lastReturn.context.course_id # <<>>
     THEN /\ lastReturn.result.allowed
             => /\ Looked(lastReturn, "enroll")
                /\ "enroll" \notin lastReturn.failedLookups
                /\ lastReturn.userId \in PresensiUsers
          /\ Looked(lastReturn, "enroll") /\ "enroll" \in lastReturn.failedLookups
             => /\ ~lastReturn.result.allowed
                /\ lastReturn.result.reason = <<"Enrollment check failed">>
          /\ ( /\ Looked(lastReturn, "enroll")
               /\ "enroll" \notin lastReturn.failedLookups
               /\ lastReturn.userId \notin PresensiUsers )
             => /\ ~lastReturn.result.allowed
                /\ lastReturn.result.reason = <<"Student not enrolled">>
          /\ ~Looked(lastReturn, "enroll")
             => /\ Looked(lastReturn, "resource")
                /\ ~lastReturn.result.allowed
     ELSE /\ ~Looked(lastReturn, "enroll")
          /\ ~Looked(lastReturn, "resource") => lastReturn.result.allowed
          /\ ~lastReturn.result.allowed
             => lastReturn.result.reason \in
                  {<<"Resource not found">>, <<"Ownership check failed">>,
                   <<"Not resource owner">>}

\* a mahasiswa without a presensi row reads courses with a course_id: the query
\* answers and the result is the denial 'Student not enrolled'
C23_Witness ==
  /\ Returned
  /\ lastReturn.userId = <<"m2">>
  /\ lastReturn.resource = <<"courses">>
  /\ lastReturn.action = <<"read">>
  /\ lastReturn.context.course_id = <<"c1">>
  /\ Looked(lastReturn, "enroll")
  /\ lastReturn.failedLookups = {}
  /\ lastReturn.result.reason = <<"Student not enrolled">>

\* C26: within one evaluation the lookups are made in the order users, grants,
\* resource, presensi; the grant store is queried only when the principal was
\* found, is not admin and resource:action is no default of its role; the
\* resource store and the presensi query are consulted only after the role or
\* the grants have allowed; and the resource store is consulted only when the
\* context has a resource_id and the resource kind has an ownership field.
C26_LookupOrder ==
  Returned /\ lastReturn.via = "direct"
  => LET order == [l \in {"user", "grants", "resource", "enroll"} |->
                    CASE l = "user" -> 1 [] l = "grants" -> 2
                      [] l = "resource" -> 3 [] OTHER -> 4]
         n == Len(lastReturn.lookups)
     IN  /\ n >= 1 /\ lastReturn.lookups[1] = "user"
         /\ \A i, j \in 1..n :
              i < j => order[lastReturn.lookups[i]] < order[lastReturn.lookups[j]]
         /\ Looked(lastReturn, "grants")
            => /\ "user" \notin lastReturn.failedLookups
               /\ lastReturn.userId \in DOMAIN UsersTable
               /\ RoleOf(lastReturn.userId) # "admin"
               /\ Required(lastReturn) \notin Defaults(RoleOf(lastReturn.userId))
         /\ Looked(lastReturn, "resource") \/ Looked(lastReturn, "enroll")
            => /\ NonAdmin(lastReturn)
               /\ \/ Required(lastReturn) \in Defaults(lastReturn.role)
                  \/ Required(lastReturn) \in lastReturn.resolved
         /\ Looked(lastReturn, "resource")
            => /\ lastReturn.context.resource_id # <<>>
               /\ lastReturn.resource \in
                    {<<"reports">>, <<"loans">>, <<"grades">>, <<"attendance">>}

\* a mahasiswa reads an inventory record it holds no permission for: only the
\* users table and the grants were consulted, although the context names a record
C26_Witness ==
  /\ Returned
  /\ lastReturn.userId = <<"m1">>
  /\ lastReturn.resource = <<"loans">>
  /\ lastReturn.action = <<"read">>
  /\ lastReturn.context.resource_id = <<"r1">>
  /\ lastReturn.lookups = <<"user", "grants">>
  /\ ~lastReturn.result.allowed

\* the two requests are of one principal, resource and action and their contexts
\* differ in the value of course_id only, which both have
SameButCourse(q1, q2) ==
  /\ q1.userId = q2.userId
  /\ q1.resource = q2.resource
  /\ q1.action = q2.action
  /\ q1.context.resource_id = q2.context.resource_id
  /\ q1.context.course_id # <<>>
  /\ q2.context.course_id # <<>>
  /\ q1.context.course_id # q2.context.course_id

C24_AsStated ==
  [][ /\ \A c \in CallIds, req \in KeyRequests :
           ( /\ CheckPermission(c, req)
             /\ authUser # <<>>
             /\ KeyOf(ActiveRequest(req)) \in DOMAIN permissionCache )
           => permissionCache[KeyOf(ActiveRequest(req))].for = ActiveRequest(req)
      /\ ( /\ lastReturn'.pc = "done" /\ lastReturn'.via = "store"
           /\ ~lastReturn'.hit /\ lastReturn'.userId # <<>>
           /\ lastReturn'.cacheKey \in DOMAIN permissionCache )
         => permissionCache[lastReturn'.cacheKey].for = Request(lastReturn')
    ]_vars

\* C28: the result of every evaluation that checkPermission awaits, a failure
\* denial included, is stored under the key of the call with the current time
\* and a ttl of 10 minutes; a later checkPermission of the key within the ttl
\* returns the stored result and counts a hit without starting any lookup.
C28_FailuresCached ==
  [][ /\ ( /\ lastReturn'.pc = "done" /\ lastReturn'.via = "store"
           /\ ~lastReturn'.hit /\ lastReturn'.userId # <<>> )
         => /\ lastReturn'.cacheKey \in DOMAIN permissionCache'
            /\ permissionCache'[lastReturn'.cacheKey].result = lastReturn'.result
            /\ permissionCache'[lastReturn'.cacheKey].timestamp = now
            /\ permissionCache'[lastReturn'.cacheKey].ttl = 10 * 60 * 1000
      /\ \A req \in FaultRequests :
           LET key == KeyOf(ActiveRequest(req))
           IN  ( /\ CheckPermission("c1", req)
                 /\ authUser # <<>>
                 /\ key \in DOMAIN permissionCache
                 /\ now - permissionCache[key].timestamp <= 10 * 60 * 1000 )
               => /\ lastReturn'.pc = "done"
                  /\ lastReturn'.result = permissionCache[key].result
                  /\ lastReturn'.lookups = <<>>
                  /\ cacheHits' = cacheHits + 1
                  /\ cacheMisses' = cacheMisses
                  /\ calls' = calls
                  /\ faults' = faults
    ]_vars

\* ten minutes after the presensi query failed, the same request is a hit on the
\* stored denial 'Enrollment check failed'
C28_Witness ==
  /\ Returned
  /\ lastReturn.hit
  /\ lastReturn.lookups = <<>>
  /\ lastReturn.result.reason = <<"Enrollment check failed">>
  /\ lastReturn.cacheKey \in DOMAIN permissionCache
  /\ now - permissionCache[lastReturn.cacheKey].timestamp = 10 * 60 * 1000
  /\ faults = 1

\* the check of the guard inside the SecureComponent has finished and denies
SecureDenied ==
  CASE secure.mode = "permission" -> ~secure.loading /\ secure.allowed = "false"
    [] secure.mode = "role" ->
         /\ ~secure.loading
         /\ \/ secure.user \notin UserRole
            \/ IF secure.exact THEN secure.user # secure.requiredRole
               ELSE level(secure.user) < level(secure.requiredRole)
    [] secure.mode = "roles" -> ~secure.loading /\ secure.user \notin secure.roles
    [] OTHER -> FALSE

\* C25 as stated: with hideOnNoAccess, in each of the permission, role and roles
\* modes a denied check renders nothing, neither the children nor the
\* unauthorized message.
C25_AsStated ==
  secure.hideOnNoAccess /\ SecureDenied => secure.rendered = "nothing"

\* the decision for the props of the guard when every lookup answers: the role
\* of the principal has resource:action by default and, where the context names
\* a record of an owned kind, the principal owns it
GuardDecision ==
  LET request == [userId |-> GuardPrincipal, resource |-> pguard.resource,
                  action |-> pguard.action, context |-> pguard.context]
  IN  /\ requiredPermission(request.resource, request.action)
           \in Defaults(RoleOf(GuardPrincipal))
      /\ OwnedKind(request) => OwnerOf(request) = GuardPrincipal

\* C30 as stated: whenever PermissionGuard renders its children, the permission
\* decision for the (resource, action, context) it is currently given is
\* allowed = true.
C30_AsStated ==
  pguard.rendered = "children" => GuardDecision

====
